---------------------------- MODULE Spec2Model ----------------------------
(***************************************************************************)
(* A model of the quorum-system library: the expression algebra over       *)
(* nodes (Node, Or, And, Choose), QuorumSystem with its resilience and its *)
(* load-optimal strategy, the two strategy classes (ExplicitStrategy of    *)
(* quorums.py, Strategy of strategy.py) and the canonicalisation of        *)
(* workload distributions.                                                 *)
(*                                                                         *)
(* Python values are modelled as records carrying a "tag".  Floats are     *)
(* modelled as exact rationals <<numerator, denominator>> in lowest terms. *)
(* A Node object carries its object identity "oid": the class defines      *)
(* neither __eq__ nor __hash__, so two Node objects are equal only when    *)
(* they are the same object.                                               *)
(***************************************************************************)
EXTENDS Integers, Sequences, FiniteSets, TLC

VARIABLES
    reads_arg,   \* the reads= argument handed to QuorumSystem(...)
    writes_arg,  \* the writes= argument handed to QuorumSystem(...)
    qs,          \* the QuorumSystem object, None before construction, or the error raised
    sigma,       \* the strategy object the last strategy(...) call returned, or None
    strat,       \* the Strategy object (strategy.py) built from sigma's fields, or None
    op,          \* the name of the last operation executed
    arg,         \* the argument of the last operation
    ret          \* what the last operation returned, or the error it raised

vars == <<reads_arg, writes_arg, qs, sigma, strat, op, arg, ret>>

(***************************************************************************)
(* Bounds of the model.                                                    *)
(***************************************************************************)
\* Expressions handed to QuorumSystem have at most MaxSize tree vertices in all.
MaxSize == 4
\* When both reads and writes are given, they have at most MaxPairSize vertices together.
MaxPairSize == 4
\* The weights the LP solver may return are the multiples of 1/WeightDen.
WeightDen == 6

None == [tag |-> "None"]
ValueError == [tag |-> "ValueError"]
AssertionError == [tag |-> "AssertionError"]
KeyError == [tag |-> "KeyError"]
ZeroDivisionError == [tag |-> "ZeroDivisionError"]

IsError(v) == v.tag \in {"ValueError", "AssertionError", "KeyError", "ZeroDivisionError"}

(***************************************************************************)
(* Exact arithmetic standing for Python's float arithmetic.                *)
(***************************************************************************)
Abs(n) == IF n < 0 THEN -n ELSE n

RECURSIVE GCD(_, _)
GCD(a, b) == IF b = 0 THEN a ELSE GCD(b, a % b)

Rat(n, d) ==
    LET g == GCD(Abs(n), Abs(d))
        s == IF d < 0 THEN -1 ELSE 1
    IN  <<(s * n) \div g, (s * d) \div g>>

Zero == Rat(0, 1)
One == Rat(1, 1)
RAdd(p, q) == Rat(p[1] * q[2] + q[1] * p[2], p[2] * q[2])
RSub(p, q) == Rat(p[1] * q[2] - q[1] * p[2], p[2] * q[2])
RMul(p, q) == Rat(p[1] * q[1], p[2] * q[2])
RDiv(p, q) == Rat(p[1] * q[2], p[2] * q[1])
RLe(p, q) == p[1] * q[2] <= q[1] * p[2]
RLt(p, q) == p[1] * q[2] < q[1] * p[2]

\* sum(...) over a sequence of numbers
RECURSIVE RSum(_)
RSum(s) == IF s = <<>> THEN Zero ELSE RAdd(Head(s), RSum(Tail(s)))

\* max(...) over a non-empty set of numbers
RMax(S) == CHOOSE m \in S : \A v \in S : RLe(v, m)

\* A set as a sequence, in some fixed order (iteration over a set or a dict).
RECURSIVE SetToSeq(_)
SetToSeq(S) ==
    IF S = {} THEN <<>>
    ELSE LET v == CHOOSE v \in S : TRUE IN <<v>> \o SetToSeq(S \ {v})

\* The concatenation of a sequence of sequences.
RECURSIVE Concat(_)
Concat(ss) == IF ss = <<>> THEN <<>> ELSE Head(ss) \o Concat(Tail(ss))

Range(s) == {s[i] : i \in DOMAIN s}

(***************************************************************************)
(* Node                                                                    *)
(***************************************************************************)
\* Node.__init__: a capacity is None or a number.
Node(oid, x, capacity, read_capacity, write_capacity) ==
    IF capacity = None /\ read_capacity = None /\ write_capacity = None
    THEN [tag |-> "Node", oid |-> oid, x |-> x,
          read_capacity |-> One, write_capacity |-> One]
    ELSE IF capacity # None /\ read_capacity = None /\ write_capacity = None
    THEN [tag |-> "Node", oid |-> oid, x |-> x,
          read_capacity |-> capacity.v, write_capacity |-> capacity.v]
    ELSE IF capacity = None /\ read_capacity # None /\ write_capacity # None
    THEN [tag |-> "Node", oid |-> oid, x |-> x,
          read_capacity |-> read_capacity.v, write_capacity |-> write_capacity.v]
    ELSE ValueError

Num(n, d) == [tag |-> "float", v |-> Rat(n, d)]

NodeNodes(e) == {e}
NodeQuorums(e) == << {e.x} >>
NodeIsQuorum(e, xs) == e.x \in xs
NodeDual(e) == e

(***************************************************************************)
(* Or, And, Choose: the constructors                                       *)
(***************************************************************************)
Or(es) == IF Len(es) = 0 THEN ValueError ELSE [tag |-> "Or", es |-> es]

And(es) == IF Len(es) = 0 THEN ValueError ELSE [tag |-> "And", es |-> es]

Choose(k, es) ==
    IF k <= 0 \/ k > Len(es) THEN ValueError
    ELSE [tag |-> "Choose", k |-> k, es |-> es]

(***************************************************************************)
(* nodes()                                                                 *)
(***************************************************************************)
\* set.union(*[e.nodes() for e in self.es]), given the children's node sets
UnionNodes(nss) == UNION Range(nss)

RECURSIVE nodes(_)
nodes(e) ==
    IF e.tag = "Node" THEN NodeNodes(e)
    ELSE UnionNodes([i \in DOMAIN e.es |-> nodes(e.es[i])])

(***************************************************************************)
(* quorums(): the sequence of sets the generator yields, in its order      *)
(***************************************************************************)
\* itertools.product(*qss) with each combination unioned: the first
\* component varies slowest.
RECURSIVE ProductUnions(_)
ProductUnions(qss) ==
    IF qss = <<>> THEN << {} >>
    ELSE LET rest == ProductUnions(Tail(qss))
             hd == Head(qss)
         IN  Concat([i \in DOMAIN hd |-> [j \in DOMAIN rest |-> hd[i] \cup rest[j]]])

\* itertools.combinations(range(lo, n + 1), k), in lexicographic order
RECURSIVE Combinations(_, _, _)
Combinations(lo, n, k) ==
    IF k = 0 THEN << <<>> >>
    ELSE IF n - lo + 1 < k THEN <<>>
    ELSE LET with == Combinations(lo + 1, n, k - 1)
         IN  [j \in DOMAIN with |-> <<lo>> \o with[j]] \o Combinations(lo + 1, n, k)

\* Or.quorums, given the children's quorum sequences
OrQuorums(qss) == Concat(qss)

\* And.quorums, given the children's quorum sequences
AndQuorums(qss) == ProductUnions(qss)

\* Choose.quorums, given the children's quorum sequences
ChooseQuorums(k, qss) ==
    LET combos == Combinations(1, Len(qss), k)
    IN  Concat([c \in DOMAIN combos |->
                  ProductUnions([i \in DOMAIN combos[c] |-> qss[combos[c][i]]])])

RECURSIVE quorums(_)
quorums(e) ==
    IF e.tag = "Node" THEN NodeQuorums(e)
    ELSE LET qss == [i \in DOMAIN e.es |-> quorums(e.es[i])]
         IN  IF e.tag = "Or" THEN OrQuorums(qss)
             ELSE IF e.tag = "And" THEN AndQuorums(qss)
             ELSE ChooseQuorums(e.k, qss)

(***************************************************************************)
(* is_quorum(xs)                                                           *)
(***************************************************************************)
\* Or.is_quorum, given the children's answers
OrIsQuorum(bs) == \E i \in DOMAIN bs : bs[i]

\* And.is_quorum, given the children's answers
AndIsQuorum(bs) == \A i \in DOMAIN bs : bs[i]

ChooseIsQuorumOffByOne(k, bs) == Cardinality({i \in DOMAIN bs : bs[i]}) > k

\* Choose.is_quorum, given the children's answers
ChooseIsQuorum(k, bs) == Cardinality({i \in DOMAIN bs : bs[i]}) >= k

RECURSIVE is_quorum(_, _)
is_quorum(e, xs) ==
    IF e.tag = "Node" THEN NodeIsQuorum(e, xs)
    ELSE LET bs == [i \in DOMAIN e.es |-> is_quorum(e.es[i], xs)]
         IN  IF e.tag = "Or" THEN OrIsQuorum(bs)
             ELSE IF e.tag = "And" THEN AndIsQuorum(bs)
             ELSE ChooseIsQuorum(e.k, bs)

(***************************************************************************)
(* dual()                                                                  *)
(***************************************************************************)
\* Or.dual, given the children's duals
OrDual(des) == And(des)

\* And.dual, given the children's duals
AndDual(des) == Or(des)

ChooseDualSameCount(k, des) ==
    Choose(IF Len(des) - k >= 1 THEN Len(des) - k ELSE 1, des)

\* Choose.dual, given the children's duals
ChooseDual(k, des) == Choose(Len(des) - k + 1, des)

RECURSIVE dual(_)
dual(e) ==
    IF e.tag = "Node" THEN NodeDual(e)
    ELSE LET des == [i \in DOMAIN e.es |-> dual(e.es[i])]
         IN  IF \E i \in DOMAIN des : IsError(des[i])
             THEN CHOOSE d \in Range(des) : IsError(d)
             ELSE IF e.tag = "Or" THEN OrDual(des)
             ELSE IF e.tag = "And" THEN AndDual(des)
             ELSE ChooseDual(e.k, des)

(***************************************************************************)
(* QuorumSystem                                                            *)
(***************************************************************************)
\* all(len(r & w) > 0 for (r, w) in itertools.product(reads.quorums(), writes.quorums()))
AllIntersect(rqs, wqs) ==
    \A i \in DOMAIN rqs : \A j \in DOMAIN wqs : rqs[i] \cap wqs[j] # {}

QuorumSystemInitUnchecked(reads, writes) ==
    IF reads # None /\ writes # None
    THEN [tag |-> "QuorumSystem", reads |-> reads, writes |-> writes]
    ELSE IF reads # None
    THEN [tag |-> "QuorumSystem", reads |-> reads, writes |-> dual(reads)]
    ELSE IF writes # None
    THEN [tag |-> "QuorumSystem", reads |-> dual(writes), writes |-> writes]
    ELSE ValueError

\* QuorumSystem.__init__: the object constructed, or the error raised
QuorumSystemInit(reads, writes) ==
    IF reads # None /\ writes # None
    THEN IF AllIntersect(quorums(reads), quorums(writes))
         THEN [tag |-> "QuorumSystem", reads |-> reads, writes |-> writes]
         ELSE AssertionError
    ELSE IF reads # None /\ writes = None
    THEN LET d == dual(reads)
         IN  IF IsError(d) THEN d
             ELSE [tag |-> "QuorumSystem", reads |-> reads, writes |-> d]
    ELSE IF reads = None /\ writes # None
    THEN LET d == dual(writes)
         IN  IF IsError(d) THEN d
             ELSE [tag |-> "QuorumSystem", reads |-> d, writes |-> writes]
    ELSE ValueError

read_quorums(q) == quorums(q.reads)
write_quorums(q) == quorums(q.writes)
is_read_quorum(q, xs) == is_quorum(q.reads, xs)
is_write_quorum(q, xs) == is_quorum(q.writes, xs)

\* The least element of a non-empty set of integers.
Min(S) == CHOOSE n \in S : \A m \in S : n <= m

SmallestSetSize(sets) == Min({Cardinality(sets[i]) : i \in DOMAIN sets})

\* QuorumSystem._min_hitting_set: the optimum of the integer program with one
\* binary variable per element, one constraint sum >= 1 per set, and the
\* number of chosen elements as its objective.
_min_hitting_set(sets) ==
    LET U == UNION Range(sets)
        feasible == {H \in SUBSET U : \A i \in DOMAIN sets : H \cap sets[i] # {}}
    IN  Min({Cardinality(H) : H \in feasible})

read_resilience(q) == _min_hitting_set(read_quorums(q)) - 1
write_resilience(q) == _min_hitting_set(write_quorums(q)) - 1
resilience(q) ==
    IF read_resilience(q) <= write_resilience(q)
    THEN read_resilience(q) ELSE write_resilience(q)

(***************************************************************************)
(* The inputs: node objects and the expressions built from them.           *)
(***************************************************************************)
NodeIds == {"a", "b", "c"}

\* a = Node('a'); b = Node('b'); c = Node('c'); a2 = Node('a', capacity=2)
Na == Node(1, "a", None, None, None)
Nb == Node(2, "b", None, None, None)
Nc == Node(3, "c", None, None, None)
Na2 == Node(4, "a", Num(2, 1), None, None)

Leaves == {Na, Nb, Nc, Na2}

\* Or(es), And(es) and Choose(k, es) for every k the constructor accepts
Compose(es) == {Or(es), And(es)} \cup {Choose(k, es) : k \in 1..Len(es)}

\* The expressions with exactly n tree vertices, and the lists of m of them
\* with n vertices in all.
RECURSIVE ExprsOfSize(_), ChildLists(_, _)
ExprsOfSize(n) ==
    IF n = 1 THEN Leaves
    ELSE UNION {Compose(es) : es \in UNION {ChildLists(n - 1, m) : m \in 1..(n - 1)}}
ChildLists(total, m) ==
    IF m = 0 THEN (IF total = 0 THEN {<<>>} ELSE {})
    ELSE UNION {{<<e>> \o rest : e \in ExprsOfSize(k), rest \in ChildLists(total - k, m - 1)} :
                k \in 1..(total - m + 1)}

Exprs == UNION {ExprsOfSize(n) : n \in 1..MaxSize}

\* The (reads, writes) argument pairs: either may be omitted; when both are
\* given they have at most MaxPairSize vertices together.
ArgPairs ==
    {<<None, None>>}
    \cup {<<e, None>> : e \in Exprs}
    \cup {<<None, e>> : e \in Exprs}
    \cup UNION {ExprsOfSize(p[1]) \X ExprsOfSize(p[2]) :
                p \in {p \in (1..MaxPairSize) \X (1..MaxPairSize) : p[1] + p[2] <= MaxPairSize}}

(***************************************************************************)
(* The operations on a quorum system                                       *)
(***************************************************************************)
Init ==
    /\ \E p \in ArgPairs : reads_arg = p[1] /\ writes_arg = p[2]
    /\ qs = None
    /\ sigma = None
    /\ strat = None
    /\ op = "start"
    /\ arg = None
    /\ ret = None

\* qs = QuorumSystem(reads=reads_arg, writes=writes_arg)
Construct ==
    /\ op = "start"
    /\ qs' = QuorumSystemInit(reads_arg, writes_arg)
    /\ op' = "QuorumSystem"
    /\ UNCHANGED <<reads_arg, writes_arg, sigma, strat, arg, ret>>

\* The system exists and no call on it is in progress.
Idle == qs.tag = "QuorumSystem" /\ op = "QuorumSystem"

\* The last call returns to the caller.
Return ==
    /\ qs.tag = "QuorumSystem"
    /\ op # "QuorumSystem"
    /\ op' = "QuorumSystem"
    /\ arg' = None
    /\ ret' = None
    /\ UNCHANGED <<reads_arg, writes_arg, qs, sigma, strat>>

\* qs.is_read_quorum(xs)
IsReadQuorum ==
    /\ Idle
    /\ \E xs \in SUBSET NodeIds :
         /\ arg' = xs
         /\ ret' = is_read_quorum(qs, xs)
    /\ op' = "is_read_quorum"
    /\ UNCHANGED <<reads_arg, writes_arg, qs, sigma, strat>>

\* qs.read_resilience()
ReadResilience ==
    /\ Idle
    /\ ret' = read_resilience(qs)
    /\ op' = "read_resilience"
    /\ arg' = None
    /\ UNCHANGED <<reads_arg, writes_arg, qs, sigma, strat>>

\* qs.write_resilience()
WriteResilience ==
    /\ Idle
    /\ ret' = write_resilience(qs)
    /\ op' = "write_resilience"
    /\ arg' = None
    /\ UNCHANGED <<reads_arg, writes_arg, qs, sigma, strat>>

\* qs.resilience()
Resilience ==
    /\ Idle
    /\ ret' = resilience(qs)
    /\ op' = "resilience"
    /\ arg' = None
    /\ UNCHANGED <<reads_arg, writes_arg, qs, sigma, strat>>

\* qs.reads.nodes() | qs.writes.nodes(), the node set strategy() works on
StrategyNodes(q) == nodes(q.reads) \cup nodes(q.writes)

\* qs.reads.nodes()
ReadsNodes ==
    /\ Idle
    /\ ret' = nodes(qs.reads)
    /\ op' = "nodes"
    /\ arg' = None
    /\ UNCHANGED <<reads_arg, writes_arg, qs, sigma, strat>>

\* qs.reads.dual().dual()
DualOfDual ==
    /\ Idle
    /\ ret' = dual(dual(qs.reads))
    /\ op' = "dual.dual"
    /\ arg' = None
    /\ UNCHANGED <<reads_arg, writes_arg, qs, sigma, strat>>

Next ==
    \/ Construct
    \/ IsReadQuorum
    \/ ReadResilience
    \/ WriteResilience
    \/ Resilience
    \/ ReadsNodes
    \/ DualOfDual
    \/ Return

Spec == Init /\ [][Next]_vars

(***************************************************************************)
(* Properties of the expression algebra and of QuorumSystem                *)
(***************************************************************************)
SingleSided == (reads_arg = None) # (writes_arg = None)

\* C1: a QuorumSystem constructed from a single side (reads only, or writes
\* only) satisfies the intersection invariant: every set read_quorums()
\* enumerates meets every set write_quorums() enumerates.
C1_SingleSideIntersection ==
    (qs.tag = "QuorumSystem" /\ SingleSided) =>
        \A r \in Range(read_quorums(qs)) : \A w \in Range(write_quorums(qs)) :
            r \cap w # {}

\* A system built from the reads side alone out of a 2-of-3 Choose.
C1_Witness ==
    /\ qs.tag = "QuorumSystem"
    /\ writes_arg = None
    /\ reads_arg.tag = "Choose"
    /\ reads_arg.k = 2
    /\ Len(reads_arg.es) = 3
    /\ qs.writes.tag = "Choose"

\* C2: with both reads and writes given, construction succeeds exactly when
\* every read quorum meets every write quorum; otherwise it fails with an
\* error and no QuorumSystem exists.  So a QuorumSystem that exists
\* satisfies the intersection invariant.
C2_ConstructionChecksIntersection ==
    (op # "start" /\ reads_arg # None /\ writes_arg # None) =>
        LET meet == \A r \in Range(quorums(reads_arg)) :
                        \A w \in Range(quorums(writes_arg)) : r \cap w # {}
        IN  /\ (qs.tag = "QuorumSystem") <=> meet
            /\ (~meet) => IsError(qs)
            /\ (qs.tag = "QuorumSystem") =>
                   /\ qs.reads = reads_arg
                   /\ qs.writes = writes_arg
                   /\ \A r \in Range(read_quorums(qs)) :
                          \A w \in Range(write_quorums(qs)) : r \cap w # {}

\* Both sides were given, some read quorum misses some write quorum, and the
\* construction failed.
C2_Witness ==
    /\ op # "start"
    /\ reads_arg # None
    /\ writes_arg # None
    /\ \E r \in Range(quorums(reads_arg)) :
           \E w \in Range(quorums(writes_arg)) : r \cap w = {}
    /\ qs = AssertionError

\* C3: is_quorum(xs) is true exactly when xs is a superset of some set that
\* quorums() enumerates, for every expression and every set xs of identities.
C3_IsQuorumIffSupersetOfQuorum ==
    (op = "is_read_quorum") =>
        (ret <=> \E q \in Range(quorums(qs.reads)) : q \subseteq arg)

\* A Choose in which the same node is a child twice, asked about {a}.
C3_Witness ==
    /\ op = "is_read_quorum"
    /\ reads_arg = Choose(2, <<Na, Na, Nb>>)
    /\ qs.reads = reads_arg
    /\ arg = {"a"}
    /\ ret = TRUE

\* Every set of at most n identities leaves some set of `sets` untouched.
Tolerates(n, sets) ==
    \A F \in SUBSET NodeIds :
        Cardinality(F) <= n => \E i \in DOMAIN sets : sets[i] \cap F = {}

\* Some set of exactly n identities meets every set of `sets`.
BrokenBy(n, sets) ==
    \E F \in SUBSET NodeIds :
        Cardinality(F) = n /\ \A i \in DOMAIN sets : sets[i] \cap F # {}

\* C4: read_resilience() is the largest number of node failures the read
\* quorums tolerate: every set F of at most that many identities leaves a
\* read quorum disjoint from F, and some set of one more identity meets every
\* read quorum.  The same for write_resilience() and the write quorums, and
\* resilience() is the smaller of the two.
C4_ResilienceIsMaxFailuresTolerated ==
    /\ (op = "read_resilience") =>
           /\ Tolerates(ret, read_quorums(qs))
           /\ BrokenBy(ret + 1, read_quorums(qs))
    /\ (op = "write_resilience") =>
           /\ Tolerates(ret, write_quorums(qs))
           /\ BrokenBy(ret + 1, write_quorums(qs))
    /\ (op = "resilience") =>
           /\ Tolerates(ret, read_quorums(qs))
           /\ Tolerates(ret, write_quorums(qs))
           /\ BrokenBy(ret + 1, read_quorums(qs)) \/ BrokenBy(ret + 1, write_quorums(qs))

\* The read resilience of a majority of three nodes is 1.
C4_Witness ==
    /\ op = "read_resilience"
    /\ reads_arg = Choose(2, <<Na, Nb, Nc>>)
    /\ ret = 1

\* C9: nodes() holds at most one Node per identity x, also when the tree
\* holds several Node objects constructed with the same x; so the node set
\* strategy() works on has exactly one entry per identity.
C9_OneNodePerIdentity ==
    /\ (op = "nodes") =>
           \A x \in NodeIds : Cardinality({n \in ret : n.x = x}) <= 1
    /\ (qs.tag = "QuorumSystem") =>
           \A x \in {n.x : n \in StrategyNodes(qs)} :
               Cardinality({n \in StrategyNodes(qs) : n.x = x}) = 1

\* s without its i-th element
Without(s, i) == SubSeq(s, 1, i - 1) \o SubSeq(s, i + 1, Len(s))

C11_DualInvolution ==
    (op = "dual.dual") =>
        /\ ~IsError(dual(qs.reads))
        /\ ~IsError(ret)
        /\ Range(quorums(ret)) = Range(quorums(qs.reads))
        /\ (qs.reads.tag = "Choose") =>
               /\ dual(qs.reads).tag = "Choose"
               /\ dual(qs.reads).k = Len(qs.reads.es) - qs.reads.k + 1
               /\ dual(qs.reads).k \in 1..Len(qs.reads.es)
               /\ ret.tag = "Choose"
               /\ ret.k = qs.reads.k

\* The double dual of a 3-of-3 Choose was taken: its dual is a 1-of-3 Choose.
C11_Witness ==
    /\ op = "dual.dual"
    /\ qs.reads.tag = "Choose"
    /\ qs.reads.k = 3
    /\ Len(qs.reads.es) = 3
    /\ dual(qs.reads).k = 1
    /\ ret.k = 3


\* C13: for a QuorumSystem constructed from reads only, read_resilience() is
\* the size of a smallest write quorum minus one and write_resilience() is
\* the size of a smallest read quorum minus one.
C13_ResilienceIsSmallestDualQuorum ==
    (qs.tag = "QuorumSystem" /\ reads_arg # None /\ writes_arg = None) =>
        /\ (op = "read_resilience") =>
               ret = Min({Cardinality(w) : w \in Range(write_quorums(qs))}) - 1
        /\ (op = "write_resilience") =>
               ret = Min({Cardinality(r) : r \in Range(read_quorums(qs))}) - 1

\* read_resilience() of reads = a + b + c, whose only write quorum is
\* {a, b, c}, returned 2.
C13_Witness ==
    /\ op = "read_resilience"
    /\ reads_arg = Or(<<Na, Nb, Nc>>)
    /\ writes_arg = None
    /\ Range(write_quorums(qs)) = {{"a", "b", "c"}}
    /\ ret = 2

(***************************************************************************)
(* Workload distributions                                                  *)
(*                                                                         *)
(* A distribution argument is an int, a float, a dict (keys and weights    *)
(* are numbers; the dict is a function on its key set) or a list of        *)
(* (f, weight) pairs; anything else is of tag "other".                     *)
(***************************************************************************)
IntArg(n) == [tag |-> "int", v |-> n]
Dict(m) == [tag |-> "dict", m |-> m]
List(items) == [tag |-> "list", items |-> items]

\* {f: weight for (f, weight) in d}: a later pair replaces an earlier pair of the same key
DictOfPairs(items) ==
    [f \in {items[i][1] : i \in DOMAIN items} |->
        LET last == CHOOSE i \in DOMAIN items :
                        /\ items[i][1] = f
                        /\ \A j \in DOMAIN items : items[j][1] = f => j <= i
        IN  items[last][2]]

\* d.values(), in the order of iteration
Values(m) == LET ks == SetToSeq(DOMAIN m) IN [i \in DOMAIN ks |-> m[ks[i]]]

\* _canonicalize_distribution, the dict branch
CanonicalizeDict(m) ==
    IF DOMAIN m = {} THEN ValueError
    ELSE IF \E f \in DOMAIN m : RLt(m[f], Zero) THEN ValueError
    ELSE LET total_weight == RSum(Values(m))
         IN  IF total_weight = Zero THEN ValueError
             ELSE Dict([f \in {g \in DOMAIN m : RLt(Zero, m[g])} |->
                            RDiv(m[f], total_weight)])

\* _canonicalize_distribution: the canonical dict, or the error raised
_canonicalize_distribution(d) ==
    IF d.tag = "int"
    THEN IF d.v < 0 \/ d.v > 1 THEN ValueError
         ELSE Dict([f \in {Rat(d.v, 1)} |-> One])
    ELSE IF d.tag = "float"
    THEN IF RLt(d.v, Zero) \/ RLt(One, d.v) THEN ValueError
         ELSE Dict([f \in {d.v} |-> One])
    ELSE IF d.tag = "dict" THEN CanonicalizeDict(d.m)
    ELSE IF d.tag = "list" THEN CanonicalizeDict(DictOfPairs(d.items))
    ELSE ValueError

\* distribution.canonicalize_rw: exactly one of the two fractions is given; a
\* write fraction f_w stands for the read fraction 1 - f_w.
canonicalize_rw(read_fraction, write_fraction) ==
    IF (read_fraction = None) = (write_fraction = None) THEN ValueError
    ELSE IF read_fraction # None THEN _canonicalize_distribution(read_fraction)
    ELSE LET d == _canonicalize_distribution(write_fraction)
         IN  IF IsError(d) THEN d
             ELSE Dict([f \in {RSub(One, g) : g \in DOMAIN d.m} |-> d.m[RSub(One, f)]])

\* sum(f * weight for (f, weight) in d.items())
MeanReadFraction(d) ==
    LET ks == SetToSeq(DOMAIN d.m)
    IN  RSum([i \in DOMAIN ks |-> RMul(ks[i], d.m[ks[i]])])

(***************************************************************************)
(* The inputs of canonicalisation                                          *)
(***************************************************************************)
\* At most MaxDistLen keys in a dict and pairs in a list.
MaxDistLen == 2

\* -1/2, 0, 1/2, 1, 3/2
Fractions == {Rat(n, 2) : n \in -1..3}
WeightValues == {Rat(n, 1) : n \in -1..2}

RECURSIVE SeqsUpTo(_, _)
SeqsUpTo(S, n) ==
    IF n = 0 THEN {<<>>}
    ELSE LET shorter == SeqsUpTo(S, n - 1)
         IN  shorter \cup {Append(t, v) : t \in {u \in shorter : Len(u) = n - 1}, v \in S}

DistInputs ==
    {IntArg(n) : n \in -1..2}
    \cup {[tag |-> "float", v |-> f] : f \in Fractions}
    \cup {Dict(m) : m \in UNION {[K -> WeightValues] :
                                   K \in {K \in SUBSET Fractions : Cardinality(K) <= MaxDistLen}}}
    \cup {List(items) : items \in SeqsUpTo(Fractions \X WeightValues, MaxDistLen)}
    \cup {[tag |-> "other"]}

InitDist ==
    /\ reads_arg = None
    /\ writes_arg = None
    /\ qs = None
    /\ sigma = None
    /\ strat = None
    /\ op = "start"
    /\ arg \in DistInputs
    /\ ret = None

\* _canonicalize_distribution(arg)
Canonicalize ==
    /\ op = "start"
    /\ ret' = _canonicalize_distribution(arg)
    /\ op' = "_canonicalize_distribution"
    /\ UNCHANGED <<reads_arg, writes_arg, qs, sigma, strat, arg>>

NextDist == Canonicalize

SpecDist == InitDist /\ [][NextDist]_vars

\* What the claim calls an invalid input, read off the argument as given.
Pairs(d) ==
    IF d.tag = "dict" THEN {<<f, d.m[f]>> : f \in DOMAIN d.m}
    ELSE IF d.tag = "list" THEN Range(d.items)
    ELSE IF d.tag = "int" THEN {<<Rat(d.v, 1), One>>}
    ELSE {<<d.v, One>>}

InvalidDistribution(d) ==
    \/ Pairs(d) = {}
    \/ \E p \in Pairs(d) : RLt(p[2], Zero)
    \/ \A p \in Pairs(d) : p[2] = Zero
    \/ \E p \in Pairs(d) : RLt(p[1], Zero) \/ RLt(One, p[1])

\* C7: canonicalising fails with an error whenever the input is empty, has a
\* negative weight, has zero total weight or holds a read fraction outside
\* [0, 1], in each of the three input forms; so no canonical distribution
\* has a key outside [0, 1].
C7_InvalidDistributionsRejected ==
    (op = "_canonicalize_distribution" /\ arg.tag \in {"int", "float", "dict", "list"}) =>
        /\ InvalidDistribution(arg) => IsError(ret)
        /\ (ret.tag = "dict") =>
               \A f \in DOMAIN ret.m : RLe(Zero, f) /\ RLe(f, One)

(***************************************************************************)
(* ExplicitStrategy (quorums.py)                                           *)
(***************************************************************************)
\* {node.x: node.read_capacity for node in nodes}
ReadCapacities(ns) ==
    [x \in {n.x : n \in ns} |-> (CHOOSE n \in ns : n.x = x).read_capacity]

\* {node.x: node.write_capacity for node in nodes}
WriteCapacities(ns) ==
    [x \in {n.x : n \in ns} |-> (CHOOSE n \in ns : n.x = x).write_capacity]

\* ExplicitStrategy.__init__
ExplicitStrategy(ns, reads, read_weights, writes, write_weights) ==
    [tag |-> "ExplicitStrategy",
     nodes |-> ns,
     read_capacity |-> ReadCapacities(ns),
     write_capacity |-> WriteCapacities(ns),
     reads |-> reads,
     read_weights |-> read_weights,
     writes |-> writes,
     write_weights |-> write_weights]

\* The defaultdict(float) that adds weights[i] to every x of sets[i]: its keys
\* are the elements of the sets.
LoadTable(sets, weights) ==
    [x \in UNION Range(sets) |->
        LET is == SetToSeq({i \in DOMAIN sets : x \in sets[i]})
        IN  RSum([j \in DOMAIN is |-> weights[is[j]]])]

\* ExplicitStrategy.load, after canonicalisation: the largest node load at
\* the mean read fraction of d
ExplicitLoadOf(s, d) ==
    LET fr == MeanReadFraction(d)
        read_load == LoadTable(s.reads, s.read_weights)
        write_load == LoadTable(s.writes, s.write_weights)
        load(x) ==
            RAdd(IF x \in DOMAIN read_load
                 THEN RDiv(RMul(fr, read_load[x]), s.read_capacity[x]) ELSE Zero,
                 IF x \in DOMAIN write_load
                 THEN RDiv(RMul(RSub(One, fr), write_load[x]), s.write_capacity[x])
                 ELSE Zero)
    IN  RMax({load(n.x) : n \in s.nodes})

\* ExplicitStrategy.load(read_fraction): the load, or the error raised
ExplicitStrategy_load(s, read_fraction) ==
    LET d == _canonicalize_distribution(read_fraction)
    IN  IF IsError(d) THEN d ELSE [tag |-> "float", v |-> ExplicitLoadOf(s, d)]

(***************************************************************************)
(* Strategy (strategy.py)                                                  *)
(***************************************************************************)
\* Strategy.__init__
Strategy(ns, reads, read_weights, writes, write_weights) ==
    [tag |-> "Strategy",
     nodes |-> ns,
     read_capacity |-> ReadCapacities(ns),
     write_capacity |-> WriteCapacities(ns),
     reads |-> reads,
     read_weights |-> read_weights,
     writes |-> writes,
     write_weights |-> write_weights,
     unweighted_read_load |-> LoadTable(reads, read_weights),
     unweighted_write_load |-> LoadTable(writes, write_weights)]

\* table[x] on a defaultdict(float): the value, 0.0 for a missing key
Lookup(table, x) == IF x \in DOMAIN table THEN table[x] ELSE Zero

\* table[x] on a defaultdict(float): the table afterwards, the missing key added
Touched(table, xs) ==
    [x \in DOMAIN table \cup xs |-> IF x \in DOMAIN table THEN table[x] ELSE Zero]

\* Strategy._node_load: the value returned, for x a key of the capacity dicts
_node_load(s, x, fr) ==
    RAdd(RDiv(RMul(fr, Lookup(s.unweighted_read_load, x)), s.read_capacity[x]),
         RDiv(RMul(RSub(One, fr), Lookup(s.unweighted_write_load, x)), s.write_capacity[x]))

\* Strategy._load: the value returned
_load(s, fr) == RMax({_node_load(s, n.x, fr) : n \in s.nodes})

\* Strategy.load: the value returned, or the error raised
Strategy_load(s, read_fraction, write_fraction) ==
    LET d == canonicalize_rw(read_fraction, write_fraction)
    IN  IF IsError(d) THEN d
        ELSE LET fs == SetToSeq(DOMAIN d.m)
             IN  [tag |-> "float",
                  v |-> RSum([i \in DOMAIN fs |-> RMul(d.m[fs[i]], _load(s, fs[i]))])]

\* Strategy.load: the strategy afterwards.  Every _node_load(node.x, fr)
\* indexes both defaultdicts with node.x, which adds the key when it is missing.
Strategy_load_effect(s, read_fraction, write_fraction) ==
    IF IsError(canonicalize_rw(read_fraction, write_fraction)) THEN s
    ELSE [s EXCEPT
            !.unweighted_read_load = Touched(@, {n.x : n \in s.nodes}),
            !.unweighted_write_load = Touched(@, {n.x : n \in s.nodes})]

\* Strategy.capacity: the value returned, or the error raised
Strategy_capacity(s, read_fraction, write_fraction) ==
    LET l == Strategy_load(s, read_fraction, write_fraction)
    IN  IF IsError(l) THEN l
        ELSE IF l.v = Zero THEN ZeroDivisionError
        ELSE [tag |-> "float", v |-> RDiv(One, l.v)]

\* Strategy.capacity: the strategy afterwards, that of the load call it makes
Strategy_capacity_effect(s, read_fraction, write_fraction) ==
    Strategy_load_effect(s, read_fraction, write_fraction)

\* sum(len(q) * p for (q, p) in zip(sets, weights))
QuorumSizeSum(sets, weights) ==
    RSum([i \in DOMAIN sets |-> RMul(Rat(Cardinality(sets[i]), 1), weights[i])])

\* Strategy.network_load: the value returned, or the error raised.  It reads
\* reads, read_weights, writes and write_weights and indexes no table.
Strategy_network_load(s, read_fraction, write_fraction) ==
    LET d == canonicalize_rw(read_fraction, write_fraction)
    IN  IF IsError(d) THEN d
        ELSE LET fr == MeanReadFraction(d)
             IN  [tag |-> "float",
                  v |-> RAdd(RMul(fr, QuorumSizeSum(s.reads, s.read_weights)),
                             RMul(RSub(One, fr), QuorumSizeSum(s.writes, s.write_weights)))]

\* Strategy.node_load: the value returned, or the error raised.  For a node
\* whose x is no key of read_capacity, _node_load raises KeyError.
Strategy_node_load(s, node, read_fraction, write_fraction) ==
    LET d == canonicalize_rw(read_fraction, write_fraction)
    IN  IF IsError(d) THEN d
        ELSE IF node.x \notin DOMAIN s.read_capacity THEN KeyError
        ELSE LET fs == SetToSeq(DOMAIN d.m)
             IN  [tag |-> "float",
                  v |-> RSum([i \in DOMAIN fs |->
                                 RMul(d.m[fs[i]], _node_load(s, node.x, fs[i]))])]

\* Strategy.node_load: the strategy afterwards.  _node_load evaluates
\* unweighted_read_load[x] before read_capacity[x], so the read table gains
\* the key x even when the lookup of the capacity then raises KeyError; the
\* write table is indexed only when the first term was computed.
Strategy_node_load_effect(s, node, read_fraction, write_fraction) ==
    IF IsError(canonicalize_rw(read_fraction, write_fraction)) THEN s
    ELSE IF node.x \notin DOMAIN s.read_capacity
    THEN [s EXCEPT !.unweighted_read_load = Touched(@, {node.x})]
    ELSE [s EXCEPT !.unweighted_read_load = Touched(@, {node.x}),
                   !.unweighted_write_load = Touched(@, {node.x})]

(***************************************************************************)
(* The load LP of QuorumSystem._load_optimal_strategy                      *)
(*                                                                         *)
(* The solver is modelled on a grid: a variable declared with bounds 0 and *)
(* 1 takes a multiple of 1/WeightDen.  Where the program is feasible the   *)
(* solver returns any of its optimal points; where it is not, solve()      *)
(* reports the status, which the code does not read, and the values of the *)
(* variables are any values within their bounds.                           *)
(***************************************************************************)
RECURSIVE ISum(_)
ISum(s) == IF s = <<>> THEN 0 ELSE Head(s) + ISum(Tail(s))

\* min(...) over a non-empty set of numbers
RMin(S) == CHOOSE m \in S : \A v \in S : RLe(m, v)

\* n variables pulp.LpVariable(name, 0, 1)
GridVectors(n) == [1..n -> 0..WeightDen]

\* ... with sum(vars) == 1
ProbVectors(n) == {v \in GridVectors(n) : ISum(v) = WeightDen}

AsWeights(v) == [i \in DOMAIN v |-> Rat(v[i], WeightDen)]

\* What _load_optimal_strategy collects before it forms the program.
LPProblem(q, read_fraction) ==
    LET ns == StrategyNodes(q)
    IN  [fr |-> MeanReadFraction(read_fraction),
         read_quorums |-> read_quorums(q),
         write_quorums |-> write_quorums(q),
         nodes |-> ns,
         read_capacity |-> ReadCapacities(ns),
         write_capacity |-> WriteCapacities(ns)]

\* sum of the variables of the quorums that hold x
SumOfVars(sets, values, x) ==
    LET is == SetToSeq({i \in DOMAIN sets : x \in sets[i]})
    IN  RSum([j \in DOMAIN is |-> values[is[j]]])

LPNodeLoadOneCapacity(lp, rw, ww, x) ==
    RAdd(IF \E i \in DOMAIN lp.read_quorums : x \in lp.read_quorums[i]
         THEN RDiv(RMul(lp.fr, SumOfVars(lp.read_quorums, rw, x)), lp.read_capacity[x])
         ELSE Zero,
         IF \E i \in DOMAIN lp.write_quorums : x \in lp.write_quorums[i]
         THEN RDiv(RMul(RSub(One, lp.fr), SumOfVars(lp.write_quorums, ww, x)),
                   lp.read_capacity[x])
         ELSE Zero)

\* x_load, the left-hand side of the constraint of node x
LPNodeLoad(lp, rw, ww, x) ==
    RAdd(IF \E i \in DOMAIN lp.read_quorums : x \in lp.read_quorums[i]
         THEN RDiv(RMul(lp.fr, SumOfVars(lp.read_quorums, rw, x)), lp.read_capacity[x])
         ELSE Zero,
         IF \E i \in DOMAIN lp.write_quorums : x \in lp.write_quorums[i]
         THEN RDiv(RMul(RSub(One, lp.fr), SumOfVars(lp.write_quorums, ww, x)),
                   lp.write_capacity[x])
         ELSE Zero)

\* The least l >= 0 with x_load <= l for every node: the objective at (rw, ww).
LPObjective(lp, rw, ww) ==
    RMax({Zero} \cup {LPNodeLoad(lp, rw, ww, n.x) : n \in lp.nodes})

\* The points that satisfy every constraint, l <= 1 included.
LPFeasible(lp) ==
    {c \in ProbVectors(Len(lp.read_quorums)) \X ProbVectors(Len(lp.write_quorums)) :
        RLe(LPObjective(lp, AsWeights(c[1]), AsWeights(c[2])), One)}

\* The feasible points of least objective.
LPOptimal(lp) ==
    LET feas == LPFeasible(lp)
        obj == [c \in feas |-> LPObjective(lp, AsWeights(c[1]), AsWeights(c[2]))]
        best == RMin({obj[c] : c \in feas})
    IN  {c \in feas : obj[c] = best}

\* problem.solve(...), then v.varValue of every quorum variable
LPVarValues(lp) ==
    IF LPFeasible(lp) # {} THEN LPOptimal(lp)
    ELSE GridVectors(Len(lp.read_quorums)) \X GridVectors(Len(lp.write_quorums))

\* QuorumSystem._load_optimal_strategy: the strategies it may return
_load_optimal_strategy(q, read_fraction) ==
    LET lp == LPProblem(q, read_fraction)
    IN  {ExplicitStrategy(lp.nodes, lp.read_quorums, AsWeights(c[1]),
                          lp.write_quorums, AsWeights(c[2])) : c \in LPVarValues(lp)}

\* QuorumSystem.strategy: what it may return, or the error it raises
strategy(q, read_fraction) ==
    LET d == _canonicalize_distribution(read_fraction)
    IN  IF IsError(d) THEN {d} ELSE _load_optimal_strategy(q, d)

(***************************************************************************)
(* choose and majority                                                     *)
(***************************************************************************)
choose(k, es) ==
    IF k = 1 THEN Or(es)
    ELSE IF k = Len(es) THEN And(es)
    ELSE Choose(k, es)

majority(es) == choose(Len(es) \div 2 + 1, es)

(***************************************************************************)
(* Strategies: the systems and the workloads tried                         *)
(***************************************************************************)
\* Node('a', read_capacity=1, write_capacity=2), Node('b', read_capacity=2,
\* write_capacity=1), Node('h', capacity=0.5)
Pa == Node(5, "a", None, Num(1, 1), Num(2, 1))
Pb == Node(6, "b", None, Num(2, 1), Num(1, 1))
Nh == Node(7, "h", Num(1, 2), None, None)

Majority3 == majority(<<Na, Nb, Nc>>)

StrategySystems ==
    {<<Majority3, None>>,
     <<Or(<<Pa, Pb>>), None>>,
     <<Or(<<Na, Nb>>), None>>,
     <<None, Or(<<Na, Nb>>)>>,
     <<Nh, None>>,
     <<Na, And(<<Na, Nb>>)>>}

\* {0.1: 2, 0.5: 2, 0.9: 1}
Mix == Dict([f \in {Rat(1, 10), Rat(1, 2), Rat(9, 10)} |->
                 IF f = Rat(9, 10) THEN Rat(1, 1) ELSE Rat(2, 1)])

\* {0: 1, 1: 1}
Extremes == Dict([f \in {Rat(0, 1), Rat(1, 1)} |-> One])

StrategyDists == {IntArg(0), IntArg(1), Num(1, 2), Num(3, 2), Extremes, Mix}

InitStrategy ==
    /\ \E p \in StrategySystems : reads_arg = p[1] /\ writes_arg = p[2]
    /\ qs = None
    /\ sigma = None
    /\ strat = None
    /\ op = "start"
    /\ arg = None
    /\ ret = None

\* sigma = qs.strategy(read_fraction)
ComputeStrategy ==
    /\ Idle
    /\ sigma = None
    /\ \E read_fraction \in StrategyDists :
         /\ arg' = read_fraction
         /\ \E r \in strategy(qs, read_fraction) :
              /\ ret' = r
              /\ sigma' = IF IsError(r) THEN sigma ELSE r
    /\ op' = "strategy"
    /\ UNCHANGED <<reads_arg, writes_arg, qs, strat>>

\* sigma.load(read_fraction)
ExplicitLoad ==
    /\ Idle
    /\ sigma # None
    /\ \E read_fraction \in StrategyDists :
         /\ arg' = read_fraction
         /\ ret' = ExplicitStrategy_load(sigma, read_fraction)
    /\ op' = "ExplicitStrategy.load"
    /\ UNCHANGED <<reads_arg, writes_arg, qs, sigma, strat>>

\* strat = Strategy(nodes, reads, read_weights, writes, write_weights), from
\* the nodes, quorums and weights of sigma
NewStrategy ==
    /\ Idle
    /\ sigma # None
    /\ strat = None
    /\ strat' = Strategy(sigma.nodes, sigma.reads, sigma.read_weights,
                         sigma.writes, sigma.write_weights)
    /\ op' = "Strategy"
    /\ arg' = None
    /\ ret' = None
    /\ UNCHANGED <<reads_arg, writes_arg, qs, sigma>>

\* strat.load(read_fraction=read_fraction)
StrategyLoad ==
    /\ Idle
    /\ strat # None
    /\ \E read_fraction \in StrategyDists :
         /\ arg' = read_fraction
         /\ ret' = Strategy_load(strat, read_fraction, None)
         /\ strat' = Strategy_load_effect(strat, read_fraction, None)
    /\ op' = "Strategy.load"
    /\ UNCHANGED <<reads_arg, writes_arg, qs, sigma>>

\* strat.capacity(read_fraction=read_fraction)
StrategyCapacity ==
    /\ Idle
    /\ strat # None
    /\ \E read_fraction \in StrategyDists :
         /\ arg' = read_fraction
         /\ ret' = Strategy_capacity(strat, read_fraction, None)
         /\ strat' = Strategy_capacity_effect(strat, read_fraction, None)
    /\ op' = "Strategy.capacity"
    /\ UNCHANGED <<reads_arg, writes_arg, qs, sigma>>

\* strat.network_load(read_fraction=read_fraction)
StrategyNetworkLoad ==
    /\ Idle
    /\ strat # None
    /\ \E read_fraction \in StrategyDists :
         /\ arg' = read_fraction
         /\ ret' = Strategy_network_load(strat, read_fraction, None)
    /\ op' = "Strategy.network_load"
    /\ UNCHANGED <<reads_arg, writes_arg, qs, sigma, strat>>

\* The nodes asked about: b, and c, which the two-node systems do not have.
NodeArgs == {Nb, Nc}

\* strat.node_load(node, read_fraction=read_fraction)
StrategyNodeLoad ==
    /\ Idle
    /\ strat # None
    /\ \E node \in NodeArgs, read_fraction \in StrategyDists :
         /\ arg' = [tag |-> "args", node |-> node, read_fraction |-> read_fraction]
         /\ ret' = Strategy_node_load(strat, node, read_fraction, None)
         /\ strat' = Strategy_node_load_effect(strat, node, read_fraction, None)
    /\ op' = "Strategy.node_load"
    /\ UNCHANGED <<reads_arg, writes_arg, qs, sigma>>

NextStrategy ==
    \/ Construct
    \/ ComputeStrategy
    \/ ExplicitLoad
    \/ NewStrategy
    \/ StrategyLoad
    \/ StrategyCapacity
    \/ StrategyNetworkLoad
    \/ StrategyNodeLoad
    \/ Return

SpecStrategy == InitStrategy /\ [][NextStrategy]_vars

(***************************************************************************)
(* Properties of strategies, in the terms of the load definitions:         *)
(*   node_load(x, f) = f * (sum of the weights of the read quorums with x) *)
(*                       / read_capacity[x]                                *)
(*                   + (1 - f) * (sum of the weights of the write quorums  *)
(*                       with x) / write_capacity[x]                       *)
(***************************************************************************)
QuorumWeight(sets, weights, x) ==
    LET is == SetToSeq({i \in DOMAIN sets : x \in sets[i]})
    IN  RSum([j \in DOMAIN is |-> weights[is[j]]])

NodeLoadAt(s, x, f) ==
    RAdd(RDiv(RMul(f, QuorumWeight(s.reads, s.read_weights, x)), s.read_capacity[x]),
         RDiv(RMul(RSub(One, f), QuorumWeight(s.writes, s.write_weights, x)),
              s.write_capacity[x]))

\* max over the nodes x of node_load(x, f)
WorstNodeLoadAt(s, f) == RMax({NodeLoadAt(s, n.x, f) : n \in s.nodes})

\* sum over f of d(f) * max over x of node_load(x, f)
ExpectedWorstCase(s, d) ==
    LET fs == SetToSeq(DOMAIN d.m)
    IN  RSum([i \in DOMAIN fs |-> RMul(d.m[fs[i]], WorstNodeLoadAt(s, fs[i]))])

\* max over x of sum over f of d(f) * node_load(x, f)
WorstCaseAtMean(s, d) ==
    LET fs == SetToSeq(DOMAIN d.m)
    IN  RMax({RSum([i \in DOMAIN fs |-> RMul(d.m[fs[i]], NodeLoadAt(s, n.x, fs[i]))]) :
              n \in s.nodes})

\* C5: load(d) of the strategy object that QuorumSystem.strategy() returns,
\* and of a Strategy, is the expected worst-case node load, the sum over f
\* of d(f) * max over x of node_load(x, f).
C5_LoadIsExpectedWorstCase ==
    /\ (op = "ExplicitStrategy.load" /\ ret.tag = "float") =>
           ret.v = ExpectedWorstCase(sigma, _canonicalize_distribution(arg))
    /\ (op = "Strategy.load" /\ ret.tag = "float") =>
           ret.v = ExpectedWorstCase(strat, _canonicalize_distribution(arg))

ValidWeights(ws) ==
    /\ RSum(ws) = One
    /\ \A i \in DOMAIN ws : RLe(Zero, ws[i]) /\ RLe(ws[i], One)

\* Some node of capacity below 1 on both sides is in every read quorum and
\* in every write quorum: its load is above 1 whatever the weights.
OverloadedNode(q) ==
    \E n \in StrategyNodes(q) :
        /\ RLt(n.read_capacity, One)
        /\ RLt(n.write_capacity, One)
        /\ \A r \in Range(read_quorums(q)) : n.x \in r
        /\ \A w \in Range(write_quorums(q)) : n.x \in w

\* C6: strategy(read_fraction) fails with an error or returns a strategy
\* whose read weights sum to 1, whose write weights sum to 1 and whose
\* weights all lie in [0, 1]; where the load LP has no feasible point (a
\* node of capacity below 1 in every quorum) it fails with an error.
C6_StrategyFailsOrIsValid ==
    (op = "strategy") =>
        /\ \/ IsError(ret)
           \/ ValidWeights(ret.read_weights) /\ ValidWeights(ret.write_weights)
        /\ OverloadedNode(qs) => IsError(ret)

\* The strategies there are: a probability vector over the read quorums and
\* one over the write quorums.
AllStrategies(q) ==
    {ExplicitStrategy(StrategyNodes(q), read_quorums(q), AsWeights(c[1]),
                      write_quorums(q), AsWeights(c[2])) :
        c \in ProbVectors(Len(read_quorums(q))) \X ProbVectors(Len(write_quorums(q)))}

\* The systems and canonical workloads for which strategies are compared.
StrategyCases ==
    {p \in StrategySystems : ~IsError(QuorumSystemInit(p[1], p[2]))}
        \X {_canonicalize_distribution(a) : a \in {b \in StrategyDists :
                                   ~IsError(_canonicalize_distribution(b))}}

\* For every case, the least worst-case node load at the mean that any
\* strategy has: the pairs <<case, least load>>.
LeastWorstCaseAtMean ==
    {<<c, RMin({WorstCaseAtMean(t, c[2]) :
                t \in AllStrategies(QuorumSystemInit(c[1][1], c[1][2]))})>> :
        c \in StrategyCases}

\* For every case, the least expected worst-case node load that any strategy
\* has: the pairs <<case, least load>>.
LeastExpectedWorstCase ==
    {<<c, RMin({ExpectedWorstCase(t, c[2]) :
                t \in AllStrategies(QuorumSystemInit(c[1][1], c[1][2]))})>> :
        c \in StrategyCases}

\* strategy(arg) returned a feasible point of the LP at the mean of d: valid
\* weights that keep every node load at the mean within the bound 1 of l.
ReturnedFeasible(d) ==
    /\ ValidWeights(ret.read_weights)
    /\ ValidWeights(ret.write_weights)
    /\ RLe(WorstCaseAtMean(ret, d), One)

\* C8, as stated: a strategy optimal for the LP at the mean read fraction
\* of d attains the least possible load(d), the expected worst-case node
\* load; for majority-of-3 and {0.1: 2, 0.5: 2, 0.9: 1} that is 2/3.
C8_MeanOptimalMinimisesExpectedWorstCase ==
    (op = "strategy" /\ ret.tag = "ExplicitStrategy") =>
        LET d == _canonicalize_distribution(arg)
            expected == ExpectedWorstCase(ret, d)
        IN  ReturnedFeasible(d) =>
              /\ <<<<<<reads_arg, writes_arg>>, d>>, expected>> \in LeastExpectedWorstCase
              /\ (qs.reads = Majority3 /\ arg = Mix) => expected = Rat(2, 3)

\* C8, amended: a strategy optimal for the LP at the mean read fraction of d
\* attains the least possible worst-case node load at the mean, which is no
\* larger than the expected worst-case node load of any strategy and is the
\* least possible load(d) when d is a point mass; for majority-of-3 and
\* {0.1: 2, 0.5: 2, 0.9: 1} the worst-case node load at the mean is 2/3
\* (where the weights 1/3 are among those the solver may return).
C8_MeanOptimalMinimisesLoadAtMean ==
    (op = "strategy" /\ ret.tag = "ExplicitStrategy") =>
        LET d == _canonicalize_distribution(arg)
            c == <<<<reads_arg, writes_arg>>, d>>
            atMean == WorstCaseAtMean(ret, d)
        IN  ReturnedFeasible(d) =>
              /\ <<c, atMean>> \in LeastWorstCaseAtMean
              /\ \A least \in LeastExpectedWorstCase :
                     least[1] = c => RLe(atMean, least[2])
              /\ Cardinality(DOMAIN d.m) = 1 =>
                     <<c, ExpectedWorstCase(ret, d)>> \in LeastExpectedWorstCase
              /\ (qs.reads = Majority3 /\ arg = Mix /\ WeightDen % 3 = 0) =>
                     atMean = Rat(2, 3)

\* strategy(d) returned an optimal point of the LP for a d that is not a
\* point mass, and the expected worst-case node load of that strategy is
\* above its worst-case node load at the mean.
C8_Witness ==
    /\ op = "strategy"
    /\ ret.tag = "ExplicitStrategy"
    /\ LET d == _canonicalize_distribution(arg)
       IN  /\ Cardinality(DOMAIN d.m) > 1
           /\ ReturnedFeasible(d)
           /\ RLt(WorstCaseAtMean(ret, d), ExpectedWorstCase(ret, d))

\* C12: a Strategy is immutable after construction: after any sequence of
\* calls to load, capacity, network_load and node_load, failing calls
\* included, every field, the key sets and the values of unweighted_read_load
\* and unweighted_write_load included, is as __init__ made it.
C12_StrategyImmutable ==
    (strat # None) =>
        strat = Strategy(sigma.nodes, sigma.reads, sigma.read_weights,
                         sigma.writes, sigma.write_weights)

=============================================================================
